---- MODULE Spec2Model ----
(***************************************************************************)
(* Model of src/agent.py, the Streamlit page "Process Reengineering":      *)
(* document ingestion and prompt assembly, the streaming collector loops   *)
(* of the report and of the follow-up answer, the PDF/TXT export and the   *)
(* session state shared by the two button handlers.                        *)
(*                                                                         *)
(* A Python str is a sequence of Unicode code points (naturals), so that   *)
(* len(), slicing, concatenation and the latin-1 narrowing are computed    *)
(* and not assumed.  Literals of the source are written out code point by  *)
(* code point, with the text in the comment above each.                    *)
(***************************************************************************)
EXTENDS Integers, Sequences, FiniteSets, TLC

(***************************************************************************)
(* Bounds of the model.                                                    *)
(***************************************************************************)
\* Longest upload list a Generate click is tried with.
MaxFiles == 2
\* Most chunks the LLM source yields in one streaming call before it ends or raises.
MaxChunks == 2
\* Most chunks of the source that is fed to both collector loops at once.
MaxPairChunks == 3
\* Longest string handed to the sanitizer on its own.
MaxSanLen == 3

(***************************************************************************)
(* Python values.                                                          *)
(***************************************************************************)
\* Python's None: a one-element tuple that is no string (code points are >= 0).
None == <<-1>>

\* ""
Empty == <<>>

\* x or y, for x a str or None
OrElse(x, y) == IF x = None \/ x = Empty THEN y ELSE x

RECURSIVE Join(_, _)
\* sep.join(parts)
Join(sep, parts) ==
  IF parts = <<>> THEN Empty
  ELSE IF Len(parts) = 1 THEN parts[1]
  ELSE parts[1] \o sep \o Join(sep, Tail(parts))

\* str.isspace() of one character: Unicode White_Space plus the separators FS..US
IsSpace(c) ==
  c \in (9..13) \cup (28..32) \cup {133, 160, 5760, 8232, 8233, 8239, 8287, 12288}
          \cup (8192..8202)

\* bool(s.strip()): some character of s is not whitespace
StripTruthy(s) == \E i \in DOMAIN s : ~IsSpace(s[i])

\* s.lower() on the ASCII letters
Lower(s) == [i \in DOMAIN s |-> IF s[i] \in 65..90 THEN s[i] + 32 ELSE s[i]]

\* s.split(".")[-1]: what follows the last "." (all of s when there is none)
LastDotPart(s) ==
  LET dots == {i \in DOMAIN s : s[i] = 46}
      last == IF dots = {} THEN 0 ELSE CHOOSE i \in dots : \A j \in dots : j <= i
  IN  SubSeq(s, last + 1, Len(s))

\* whether p is a prefix of s
IsPrefix(p, s) == Len(p) <= Len(s) /\ SubSeq(s, 1, Len(p)) = p

(***************************************************************************)
(* Literals of the source.                                                 *)
(***************************************************************************)
\* "pdf", "csv", "docx"
ExtPdf == <<112, 100, 102>>
ExtCsv == <<99, 115, 118>>
ExtDocx == <<100, 111, 99, 120>>

\* "\n"
Newline == <<10>>

\* "\n[Truncated]"
TruncMarker == <<10, 91, 84, 114, 117, 110, 99, 97, 116, 101, 100, 93>>

\* the per-document cap of line 153
SnippetCap == 5000

\* "[Partial output received]"
Placeholder ==
  <<91, 80, 97, 114, 116, 105, 97, 108, 32, 111, 117, 116, 112, 117, 116, 32, 114, 101,
    99, 101, 105, 118, 101, 100, 93>>

\* "\n\nLLM Response:\n"
ContextSep == <<10, 10, 76, 76, 77, 32, 82, 101, 115, 112, 111, 110, 115, 101, 58, 10>>

\* "\n\nUser follow-up question: "
FollowupHead ==
  <<10, 10, 85, 115, 101, 114, 32, 102, 111, 108, 108, 111, 119, 45, 117, 112, 32, 113,
    117, 101, 115, 116, 105, 111, 110, 58, 32>>

\* "\nAnswer concisely based on the context."
FollowupTail ==
  <<10, 65, 110, 115, 119, 101, 114, 32, 99, 111, 110, 99, 105, 115, 101, 108, 121, 32,
    98, 97, 115, 101, 100, 32, 111, 110, 32, 116, 104, 101, 32, 99, 111, 110, 116, 101,
    120, 116, 46>>

\* "User", "Organization": the defaults of lines 200-201
DefaultName == <<85, 115, 101, 114>>
DefaultOrg == <<79, 114, 103, 97, 110, 105, 122, 97, 116, 105, 111, 110>>

\* "BPR_Report_", ".pdf", ".txt"
ReportStem == <<66, 80, 82, 95, 82, 101, 112, 111, 114, 116, 95>>
DotPdf == <<46, 112, 100, 102>>
DotTxt == <<46, 116, 120, 116>>

\* src/agent.py:90-95  template text up to {user}: 226 characters
TemplateHead ==
  <<10, 89, 111, 117, 32, 97, 114, 101, 32, 97, 110, 32, 65, 73, 32, 66, 117, 115, 105, 110,
    101, 115, 115, 32, 80, 114, 111, 99, 101, 115, 115, 32, 82, 101, 101, 110, 103, 105,
    110, 101, 101, 114, 105, 110, 103, 32, 69, 120, 112, 101, 114, 116, 32, 102, 111, 114,
    32, 109, 97, 110, 117, 102, 97, 99, 116, 117, 114, 105, 110, 103, 46, 32, 68, 111, 32,
    110, 111, 116, 32, 104, 97, 108, 108, 117, 99, 105, 110, 97, 116, 101, 32, 97, 110, 100,
    32, 103, 105, 118, 101, 32, 114, 101, 115, 117, 108, 116, 115, 32, 119, 105, 116, 104,
    105, 110, 10, 116, 104, 101, 32, 112, 114, 111, 118, 105, 100, 101, 100, 32, 100, 111,
    99, 117, 109, 101, 110, 116, 115, 44, 32, 114, 101, 102, 101, 114, 32, 111, 110, 108,
    121, 32, 114, 101, 97, 108, 32, 102, 97, 99, 116, 32, 100, 97, 116, 97, 32, 116, 111,
    32, 103, 101, 110, 101, 114, 97, 116, 101, 32, 114, 101, 115, 117, 108, 116, 46, 10, 10,
    71, 101, 110, 101, 114, 97, 116, 101, 32, 97, 32, 100, 101, 116, 97, 105, 108, 101, 100,
    32, 114, 101, 112, 111, 114, 116, 32, 102, 111, 114, 58, 10, 45, 32, 85, 115, 101, 114,
    58, 32>>

\* template text between {user} and {org}: 17 characters
TemplateMid ==
  <<10, 45, 32, 79, 114, 103, 97, 110, 105, 122, 97, 116, 105, 111, 110, 58, 32>>

\* template text between {org} and {documents}: 434 characters
TemplateDocs ==
  <<10, 10, 80, 114, 111, 100, 117, 99, 101, 32, 97, 32, 115, 116, 114, 117, 99, 116, 117,
    114, 101, 100, 32, 105, 109, 112, 114, 111, 118, 101, 109, 101, 110, 116, 32, 114, 101,
    112, 111, 114, 116, 32, 105, 110, 99, 108, 117, 100, 105, 110, 103, 58, 10, 49, 41, 32,
    79, 118, 101, 114, 118, 105, 101, 119, 32, 111, 102, 32, 99, 117, 114, 114, 101, 110,
    116, 32, 112, 114, 111, 99, 101, 115, 115, 10, 50, 41, 32, 68, 101, 116, 101, 99, 116,
    101, 100, 32, 105, 110, 101, 102, 102, 105, 99, 105, 101, 110, 99, 105, 101, 115, 32,
    47, 32, 98, 111, 116, 116, 108, 101, 110, 101, 99, 107, 115, 10, 51, 41, 32, 80, 114,
    111, 112, 111, 115, 101, 100, 32, 114, 101, 101, 110, 103, 105, 110, 101, 101, 114, 105,
    110, 103, 32, 97, 99, 116, 105, 111, 110, 115, 32, 40, 100, 101, 116, 97, 105, 108, 101,
    100, 32, 115, 116, 101, 112, 115, 41, 10, 52, 41, 32, 69, 120, 112, 101, 99, 116, 101,
    100, 32, 98, 117, 115, 105, 110, 101, 115, 115, 32, 98, 101, 110, 101, 102, 105, 116,
    115, 32, 40, 75, 80, 73, 32, 105, 109, 112, 97, 99, 116, 32, 101, 115, 116, 105, 109,
    97, 116, 101, 115, 44, 32, 116, 105, 109, 101, 108, 105, 110, 101, 41, 10, 53, 41, 32,
    66, 101, 110, 99, 104, 109, 97, 114, 107, 32, 99, 111, 109, 112, 97, 114, 105, 115, 111,
    110, 115, 32, 105, 102, 32, 97, 112, 112, 108, 105, 99, 97, 98, 108, 101, 10, 54, 41,
    32, 65, 117, 116, 111, 109, 97, 116, 105, 111, 110, 32, 38, 32, 100, 105, 103, 105, 116,
    97, 108, 105, 122, 97, 116, 105, 111, 110, 32, 111, 112, 112, 111, 114, 116, 117, 110,
    105, 116, 105, 101, 115, 10, 55, 41, 32, 82, 105, 115, 107, 115, 32, 38, 32, 109, 105,
    116, 105, 103, 97, 116, 105, 111, 110, 115, 10, 10, 85, 115, 101, 32, 76, 101, 97, 110,
    44, 32, 83, 105, 120, 32, 83, 105, 103, 109, 97, 32, 99, 111, 110, 99, 101, 112, 116,
    115, 32, 119, 104, 101, 114, 101, 32, 114, 101, 108, 101, 118, 97, 110, 116, 32, 97,
    110, 100, 32, 98, 101, 32, 99, 111, 110, 99, 105, 115, 101, 32, 97, 110, 100, 32, 97,
    99, 116, 105, 111, 110, 97, 98, 108, 101, 46, 10, 10, 68, 111, 99, 117, 109, 101, 110,
    116, 115, 58, 10>>

\* template text after {documents}: 1 characters
TemplateTail ==
  <<10>>


\* "File: ", "\nDescription: ", "\nContent:\n" of the block of line 154
LabelFile == <<70, 105, 108, 101, 58, 32>>
LabelDescription == <<10, 68, 101, 115, 99, 114, 105, 112, 116, 105, 111, 110, 58, 32>>
LabelContent == <<10, 67, 111, 110, 116, 101, 110, 116, 58, 10>>

\* "\n\n", the separator of line 156
BlockSep == <<10, 10>>

\* "[Error reading ", ": ", "]" of the marker of line 150
ErrorHead == <<91, 69, 114, 114, 111, 114, 32, 114, 101, 97, 100, 105, 110, 103, 32>>
ErrorMid == <<58, 32>>
ErrorTail == <<93>>

(***************************************************************************)
(* Text extraction and prompt assembly (the body of the Generate handler   *)
(* up to the LLM call).                                                    *)
(*                                                                         *)
(* An uploaded file is [name, parts, cause]: parts is what the format's    *)
(* library reads from it (a PDF's page.extract_text() results, None for a  *)
(* page without text; a CSV's df.to_string(...) preview as one part; a     *)
(* DOCX's paragraph texts) and cause is the message of the exception the   *)
(* library raises on it, None when it raises nothing.  An upload is        *)
(* [file, desc], desc being what the user typed into the file's text area. *)
(***************************************************************************)
\* ext = uploaded_file.name.split(".")[-1].lower()
Extension(name) == Lower(LastDotPart(name))

\* txt = page.extract_text() or ""
PageText(page) == OrElse(page, Empty)

\* f"[Error reading {uploaded_file.name}: {e}]"
ErrorMarker(name, cause) == ErrorHead \o name \o ErrorMid \o cause \o ErrorTail

\* the try/except of lines 130-150: text_content of one file
ExtractText(file) ==
  LET ext == Extension(file.name)
  IN  IF ext \in {ExtPdf, ExtCsv, ExtDocx} /\ file.cause # None
        THEN ErrorMarker(file.name, file.cause)
      ELSE IF ext = ExtPdf
        THEN Join(Newline, [i \in DOMAIN file.parts |-> PageText(file.parts[i])])
      ELSE IF ext = ExtCsv THEN file.parts[1]
      ELSE IF ext = ExtDocx THEN Join(Newline, file.parts)
      ELSE Empty

\* snippet = text_content if len(text_content) < 5000
\*           else text_content[:5000] + "\n[Truncated]"
Snippet(text_content) ==
  IF Len(text_content) < SnippetCap
    THEN text_content
    ELSE SubSeq(text_content, 1, SnippetCap) \o TruncMarker

\* the dict of lines 80-85: file name -> description, a later file of the same
\* name overwriting an earlier one
FileDescriptions(ups) ==
  [n \in {ups[i].file.name : i \in DOMAIN ups} |->
     LET idx == {i \in DOMAIN ups : ups[i].file.name = n}
     IN  ups[CHOOSE i \in idx : \A j \in idx : j <= i].desc]

\* file_descriptions.get(name, "")
GetDescription(descs, name) == IF name \in DOMAIN descs THEN descs[name] ELSE Empty

\* f"File: {uploaded_file.name}\nDescription: {desc}\nContent:\n"
BlockHeader(name, desc) ==
  LabelFile \o name \o LabelDescription \o desc \o LabelContent

\* one pass of the loop of lines 123-154 that drops a file whose parsing raises
FileBlockSkipping(file, descs) ==
  IF file.cause # None THEN Empty
  ELSE BlockHeader(file.name, GetDescription(descs, file.name))
         \o Snippet(ExtractText(file))

\* one pass of the loop of lines 123-154: the block appended to all_texts
FileBlock(file, descs) ==
  BlockHeader(file.name, GetDescription(descs, file.name)) \o Snippet(ExtractText(file))

\* all_texts after the loop of lines 122-154
AllTexts(ups) ==
  [i \in DOMAIN ups |-> FileBlock(ups[i].file, FileDescriptions(ups))]

\* prompt_template.format(documents=..., user=..., org=...)
FormatPrompt(documents, user, org) ==
  TemplateHead \o user \o TemplateMid \o org \o TemplateDocs \o documents
    \o TemplateTail

\* lines 156-157
FullPrompt(ups, user, org) ==
  FormatPrompt(Join(BlockSep, AllTexts(ups)), user, org)

(***************************************************************************)
(* The streaming collector loops.  A chunk of llm.stream(...) is           *)
(* [shape, content]: shape "object" has a .content attribute, "mapping" is *)
(* a dict with a "content" key, "string" is a str (content is the chunk    *)
(* itself) and "other" is none of the three; content may be None.          *)
(***************************************************************************)
\* lines 170-176 (and 254-260): the text payload of one chunk
TextChunk(chunk) ==
  IF chunk.shape = "object" THEN OrElse(chunk.content, Empty)
  ELSE IF chunk.shape = "mapping" THEN OrElse(chunk.content, Empty)
  ELSE IF chunk.shape = "string" THEN chunk.content
  ELSE Empty

\* lines 178-180 with the chunk put in front of the buffer
ReportAppendFront(buffer, shown, chunk) ==
  LET text_chunk == TextChunk(chunk)
  IN  IF text_chunk # Empty
        THEN [buffer |-> text_chunk \o buffer,
              shown |-> Append(shown, text_chunk \o buffer)]
        ELSE [buffer |-> buffer, shown |-> shown]

\* lines 178-180: streamed_output += text_chunk; stream_container.markdown(...)
\* buffer is streamed_output, shown the states handed to the container so far
ReportAppend(buffer, shown, chunk) ==
  LET text_chunk == TextChunk(chunk)
  IN  IF text_chunk # Empty
        THEN [buffer |-> buffer \o text_chunk,
              shown |-> Append(shown, buffer \o text_chunk)]
        ELSE [buffer |-> buffer, shown |-> shown]

\* lines 261-263: response_text += text_chunk; followup_container.markdown(...)
FollowupAppend(buffer, shown, chunk) ==
  LET text_chunk == TextChunk(chunk)
  IN  IF text_chunk # Empty
        THEN [buffer |-> buffer \o text_chunk,
              shown |-> Append(shown, buffer \o text_chunk)]
        ELSE [buffer |-> buffer, shown |-> shown]

\* line 183 without the placeholder
ReportOnRaiseKeep(buffer) == buffer

\* line 183: streamed_output = streamed_output or "[Partial output received]"
ReportOnRaise(buffer) == OrElse(buffer, Placeholder)

\* lines 264-265: the except branch leaves response_text as it is
FollowupOnRaise(buffer) == buffer

RECURSIVE ConcatPayloads(_)
\* c1 + ... + ck, the text payloads of a chunk sequence in order
ConcatPayloads(chunks) ==
  IF chunks = <<>> THEN Empty
  ELSE TextChunk(Head(chunks)) \o ConcatPayloads(Tail(chunks))

(***************************************************************************)
(* Export sanitization.  A codec's encode/decode either yields a string of *)
(* code units or raises; Raised stands for the exception.                  *)
(***************************************************************************)
Raised == <<-2>>

\* "?", what errors="replace" puts for a character the codec lacks
ReplacementChar == 63

\* largest code point of latin-1 and of ascii
Latin1Max == 255
AsciiMax == 127

\* s.encode(codec, errors=...): errors is "replace" or "strict"
Encode(s, codecMax, errors) ==
  IF errors = "strict" /\ \E i \in DOMAIN s : s[i] > codecMax THEN Raised
  ELSE [i \in DOMAIN s |-> IF s[i] > codecMax THEN ReplacementChar ELSE s[i]]

\* b.decode(codec)
Decode(b, codecMax) ==
  IF b = Raised \/ \E i \in DOMAIN b : b[i] > codecMax THEN Raised ELSE b

\* lines 192-198 with errors="strict" in both tiers
SanitizeStrict(s) ==
  LET first == Decode(Encode(s, Latin1Max, "strict"), Latin1Max)
  IN  IF first # Raised THEN first
      ELSE Decode(Encode(s, AsciiMax, "strict"), AsciiMax)

\* lines 192-198: latin-1 with replacement, ascii with replacement if that raises
sanitize_for_pdf(s) ==
  LET first == Decode(Encode(s, Latin1Max, "replace"), Latin1Max)
  IN  IF first # Raised THEN first
      ELSE Decode(Encode(s, AsciiMax, "replace"), AsciiMax)

(***************************************************************************)
(* Export (lines 189-236).  The outcome of the FPDF calls is the           *)
(* environment's: "ok", "layout_raises" (a call of lines 204-217, outside  *)
(* the try, raises) or "output_raises" (a call of lines 220-227, inside    *)
(* the try, raises).                                                       *)
(***************************************************************************)
PdfOutcomes == {"ok", "layout_raises", "output_raises"}

NoDownload == [kind |-> "none", file_name |-> Empty, data |-> Empty]

\* lines 190-236: what the run offers for download and the notices it adds
Export(streamed_output, name, outcome) ==
  LET safe_name == sanitize_for_pdf(OrElse(name, DefaultName))
      safe_report == sanitize_for_pdf(streamed_output)
  IN  IF streamed_output = Empty
        THEN [download |-> NoDownload, events |-> <<>>]
      ELSE IF outcome = "layout_raises"
        THEN [download |-> NoDownload, events |-> <<"exception:pdf">>]
      ELSE IF outcome = "output_raises"
        THEN [download |-> [kind |-> "txt",
                            file_name |-> ReportStem \o safe_name \o DotTxt,
                            data |-> streamed_output],
              events |-> <<"error:pdf">>]
      ELSE [download |-> [kind |-> "pdf",
                          file_name |-> ReportStem \o safe_name \o DotPdf,
                          data |-> safe_report],
            events |-> <<>>]

(***************************************************************************)
(* Validation and session state.                                           *)
(***************************************************************************)
\* lines 116-119 with "and" for "or"
GenerateValidationBoth(name, org, ups) ==
  IF name = Empty /\ org = Empty THEN "warning:identity"
  ELSE IF ups = <<>> THEN "warning:files"
  ELSE "ok"

\* lines 116-119: the warning of a Generate click, "ok" when it passes
GenerateValidation(name, org, ups) ==
  IF name = Empty \/ org = Empty THEN "warning:identity"
  ELSE IF ups = <<>> THEN "warning:files"
  ELSE "ok"

\* line 244: if user_query.strip()
AskValidation(query) == IF StripTruthy(query) THEN "ok" ELSE "warning:question"

\* lines 245-248
FollowupPrompt(context, query) == context \o FollowupHead \o query \o FollowupTail

\* st.session_state before any Generate has stored into it
NoSession == [k \in {} |-> Empty]

\* lines 186-187 keeping the context already stored and adding to it
SessionWriteAppending(session, full_prompt, output) ==
  [context |-> (IF "context" \in DOMAIN session THEN session["context"] ELSE Empty)
                 \o full_prompt \o ContextSep \o output,
   report |-> output]

\* lines 186-187
SessionWrite(session, full_prompt, output) ==
  [context |-> full_prompt \o ContextSep \o output, report |-> output]

(***************************************************************************)
(* Inputs the model is run with.                                           *)
(***************************************************************************)
\* "Jo" followed by the euro sign, which latin-1 lacks; "Acme"
NameJo == <<74, 111, 8364>>
OrgAcme == <<65, 99, 109, 101>>
NamePool == {Empty, NameJo}
OrgPool == {Empty, OrgAcme}

\* a.pdf: two pages, the first without text, the second "ok"; described "KPI"
\* b.CSV: the CSV parser raises "EOF"
\* c.docx: the paragraphs "Hi" and ""
UploadA ==
  [file |-> [name |-> <<97, 46, 112, 100, 102>>, parts |-> <<None, <<111, 107>>>>,
             cause |-> None],
   desc |-> <<75, 80, 73>>]
UploadB ==
  [file |-> [name |-> <<98, 46, 67, 83, 86>>, parts |-> <<>>,
             cause |-> <<69, 79, 70>>],
   desc |-> Empty]
UploadC ==
  [file |-> [name |-> <<99, 46, 100, 111, 99, 120>>, parts |-> <<<<72, 105>>, Empty>>,
             cause |-> None],
   desc |-> Empty]
\* d.docx, e.docx, f.docx: one paragraph of SnippetCap - 1, SnippetCap and
\* SnippetCap + 1 characters, the letters a..z over and over
LongText(n) == [i \in 1..n |-> 97 + (i % 26)]
UploadD ==
  [file |-> [name |-> <<100, 46, 100, 111, 99, 120>>,
             parts |-> <<LongText(SnippetCap - 1)>>, cause |-> None],
   desc |-> Empty]
UploadE ==
  [file |-> [name |-> <<101, 46, 100, 111, 99, 120>>,
             parts |-> <<LongText(SnippetCap)>>, cause |-> None],
   desc |-> Empty]
UploadF ==
  [file |-> [name |-> <<102, 46, 100, 111, 99, 120>>,
             parts |-> <<LongText(SnippetCap + 1)>>, cause |-> None],
   desc |-> Empty]
\* g.docx: python-docx raises "bad zip"
UploadG ==
  [file |-> [name |-> <<103, 46, 100, 111, 99, 120>>, parts |-> <<>>,
             cause |-> <<98, 97, 100, 32, 122, 105, 112>>],
   desc |-> <<75, 80, 73>>]

\* upload lists: up to MaxFiles files of distinct names, in any order (the text
\* area of line 84 is identified by its label, so two files of one name cannot
\* be on the page)
UploadLists(entries) ==
  UNION {{ups \in [1..n -> entries] :
            \A i, j \in 1..n : i # j => ups[i].file.name # ups[j].file.name}
         : n \in 0..MaxFiles}

\* the uploads of the session model, and those of the extraction model
UploadPool == UploadLists({UploadA, UploadB})
ExtractUploadPool ==
  UploadLists({UploadA, UploadB, UploadC, UploadD, UploadE, UploadF, UploadG})

\* chunks: an object with content "ab", an object and a mapping whose content is
\* None, the euro sign as a plain string, a value of no accepted shape
ChunkPool ==
  {[shape |-> "object", content |-> <<97, 98>>],
   [shape |-> "object", content |-> None],
   [shape |-> "mapping", content |-> None],
   [shape |-> "string", content |-> <<8364>>],
   [shape |-> "other", content |-> None]}

\* "", " \t", "Why?"
QueryPool == {Empty, <<32, 9>>, <<87, 104, 121, 63>>}

(***************************************************************************)
(* State.  Streamlit runs the script once per click; apart from            *)
(* st.session_state everything below belongs to the latest run and is set  *)
(* anew by the next click.  The widget values are the user's input to a    *)
(* run: a Generate run records the name, organization and uploads it       *)
(* reads, an Ask run the question it reads, and the values the run's       *)
(* handler does not read are recorded as blank.                            *)
(***************************************************************************)
VARIABLES
  pc,               \* "idle", "report_streaming" or "followup_streaming"
  run,              \* the button the latest script run handles: "none", "generate", "ask"
  collector,        \* the latest run's streaming call: IDLE, STREAMING, COMPLETED, FAILED
  session_state,    \* st.session_state: no key, or "context" and "report"
  user_name,        \* the widget values the latest run's handler reads
  organization,
  uploads,
  user_query,
  all_texts,        \* the per-document blocks of the latest Generate run
  llm_requests,     \* the prompts the latest run handed to llm.stream
  streamed_output,  \* the report buffer of the latest Generate run
  response_text,    \* the answer buffer of the latest Ask run
  rendered,         \* the buffer states the latest run's container was given, in order
  chunks_read,      \* the chunks the latest run's loop has taken from the source
  events,           \* the notices of the latest run, in order
  download,         \* the download button of the latest run
  pair_chunks,      \* one chunk source fed to both loops: the chunks so far,
  pair_status,      \*   STREAMING, COMPLETED or FAILED,
  pair_report,      \*   the report loop's buffer and container states,
  pair_followup,    \*   the follow-up loop's buffer and container states
  san_in,           \* a string, its sanitization and the sanitization of that
  san_out,
  san_again

handler_vars ==
  <<pc, run, collector, session_state, user_name, organization, uploads, user_query,
    all_texts, llm_requests, streamed_output, response_text, rendered, chunks_read,
    events, download>>
pair_vars == <<pair_chunks, pair_status, pair_report, pair_followup>>
san_vars == <<san_in, san_out, san_again>>
vars == <<handler_vars, pair_vars, san_vars>>

InitHandlers ==
  /\ pc = "idle"
  /\ run = "none"
  /\ collector = "IDLE"
  /\ session_state = NoSession
  /\ user_name = Empty
  /\ organization = Empty
  /\ uploads = <<>>
  /\ user_query = Empty
  /\ all_texts = <<>>
  /\ llm_requests = <<>>
  /\ streamed_output = Empty
  /\ response_text = Empty
  /\ rendered = <<>>
  /\ chunks_read = <<>>
  /\ events = <<>>
  /\ download = NoDownload

InitPair ==
  /\ pair_chunks = <<>>
  /\ pair_status = "STREAMING"
  /\ pair_report = [buffer |-> Empty, shown |-> <<>>]
  /\ pair_followup = [buffer |-> Empty, shown |-> <<>>]

InitSanIdle ==
  /\ san_in = Empty
  /\ san_out = None
  /\ san_again = None

(***************************************************************************)
(* The Generate handler (lines 115-236).                                   *)
(***************************************************************************)
\* A click with the widgets holding name, org and ups: validation, extraction,
\* prompt assembly and the call of llm.stream.
Generate(name, org, ups) ==
  /\ pc = "idle"
  /\ LET notice == GenerateValidation(name, org, ups)
     IN  IF notice = "ok"
           THEN /\ all_texts' = AllTexts(ups)
                /\ llm_requests' = <<FullPrompt(ups, name, org)>>
                /\ events' = <<"info:report">>
                /\ collector' = "STREAMING"
                /\ pc' = "report_streaming"
           ELSE /\ all_texts' = <<>>
                /\ llm_requests' = <<>>
                /\ events' = <<notice>>
                /\ collector' = "IDLE"
                /\ pc' = "idle"
  /\ run' = "generate"
  /\ user_name' = name
  /\ organization' = org
  /\ uploads' = ups
  /\ user_query' = Empty
  /\ streamed_output' = Empty
  /\ response_text' = Empty
  /\ rendered' = <<>>
  /\ chunks_read' = <<>>
  /\ download' = NoDownload
  /\ UNCHANGED <<session_state, pair_vars, san_vars>>

GenerateClick ==
  \E name \in NamePool, org \in OrgPool, ups \in UploadPool : Generate(name, org, ups)

\* One pass of the loop of lines 168-180.
ReportChunk ==
  /\ pc = "report_streaming"
  /\ Len(chunks_read) < MaxChunks
  /\ \E chunk \in ChunkPool :
       LET next == ReportAppend(streamed_output, rendered, chunk)
       IN  /\ streamed_output' = next.buffer
           /\ rendered' = next.shown
           /\ chunks_read' = Append(chunks_read, chunk)
  /\ UNCHANGED <<pc, run, collector, session_state, user_name, organization, uploads,
                 user_query, all_texts, llm_requests, response_text, events, download,
                 pair_vars, san_vars>>

\* Lines 185-236 on the final buffer: the notices, the session state, the export.
ReportFinish(output, notices) ==
  /\ \E outcome \in PdfOutcomes :
       LET export == Export(output, user_name, outcome)
       IN  /\ events' = events \o notices \o <<"success">> \o export.events
           /\ download' = export.download
  /\ streamed_output' = output
  /\ session_state' = SessionWrite(session_state, llm_requests[1], output)
  /\ pc' = "idle"
  /\ UNCHANGED <<run, user_name, organization, uploads, user_query, all_texts,
                 llm_requests, response_text, rendered, chunks_read,
                 pair_vars, san_vars>>

\* The source is exhausted: the loop of line 168 ends, lines 185-236 follow.
ReportEnd ==
  /\ pc = "report_streaming"
  /\ collector' = "COMPLETED"
  /\ ReportFinish(streamed_output, <<>>)

\* The source raises: the except branch of lines 181-183, then lines 185-236.
ReportRaise ==
  /\ pc = "report_streaming"
  /\ collector' = "FAILED"
  /\ ReportFinish(ReportOnRaise(streamed_output), <<"error:stream">>)

(***************************************************************************)
(* The follow-up handler (lines 239-267).                                  *)
(***************************************************************************)
AskClick ==
  /\ pc = "idle"
  /\ "context" \in DOMAIN session_state
  /\ \E query \in QueryPool :
       /\ user_query' = query
       /\ IF AskValidation(query) = "ok"
            THEN /\ llm_requests' =
                      <<FollowupPrompt(session_state["context"], query)>>
                 /\ events' = <<"info:followup">>
                 /\ collector' = "STREAMING"
                 /\ pc' = "followup_streaming"
            ELSE /\ llm_requests' = <<>>
                 /\ events' = <<AskValidation(query)>>
                 /\ collector' = "IDLE"
                 /\ pc' = "idle"
  /\ run' = "ask"
  /\ user_name' = Empty
  /\ organization' = Empty
  /\ uploads' = <<>>
  /\ all_texts' = <<>>
  /\ streamed_output' = Empty
  /\ response_text' = Empty
  /\ rendered' = <<>>
  /\ chunks_read' = <<>>
  /\ download' = NoDownload
  /\ UNCHANGED <<session_state, pair_vars, san_vars>>

\* One pass of the loop of lines 253-263.
AskChunk ==
  /\ pc = "followup_streaming"
  /\ Len(chunks_read) < MaxChunks
  /\ \E chunk \in ChunkPool :
       LET next == FollowupAppend(response_text, rendered, chunk)
       IN  /\ response_text' = next.buffer
           /\ rendered' = next.shown
           /\ chunks_read' = Append(chunks_read, chunk)
  /\ UNCHANGED <<pc, run, collector, session_state, user_name, organization, uploads,
                 user_query, all_texts, llm_requests, streamed_output, events, download,
                 pair_vars, san_vars>>

\* AskEnd storing the answer into the context
AskEndAccumulating ==
  /\ pc = "followup_streaming"
  /\ collector' = "COMPLETED"
  /\ pc' = "idle"
  /\ session_state' =
       [session_state EXCEPT !["context"] = llm_requests[1] \o ContextSep \o response_text]
  /\ UNCHANGED <<run, user_name, organization, uploads, user_query,
                 all_texts, llm_requests, streamed_output, response_text, rendered,
                 chunks_read, events, download, pair_vars, san_vars>>

\* The source is exhausted: the handler is over.
AskEnd ==
  /\ pc = "followup_streaming"
  /\ collector' = "COMPLETED"
  /\ pc' = "idle"
  /\ UNCHANGED <<run, session_state, user_name, organization, uploads, user_query,
                 all_texts, llm_requests, streamed_output, response_text, rendered,
                 chunks_read, events, download, pair_vars, san_vars>>

\* The source raises: the except branch of lines 264-265.
AskRaise ==
  /\ pc = "followup_streaming"
  /\ collector' = "FAILED"
  /\ response_text' = FollowupOnRaise(response_text)
  /\ events' = Append(events, "error:followup")
  /\ pc' = "idle"
  /\ UNCHANGED <<run, session_state, user_name, organization, uploads, user_query,
                 all_texts, llm_requests, streamed_output, rendered, chunks_read,
                 download, pair_vars, san_vars>>

(***************************************************************************)
(* The session: any sequence of Generate and Ask clicks.                   *)
(***************************************************************************)
Init == InitHandlers /\ InitPair /\ InitSanIdle

Next ==
  \/ GenerateClick
  \/ ReportChunk
  \/ ReportEnd
  \/ ReportRaise
  \/ AskClick
  \/ AskChunk
  \/ AskEnd
  \/ AskRaise

Spec == Init /\ [][Next]_vars

(***************************************************************************)
(* The first Generate click of a session, over uploads that include        *)
(* documents one short of, at and one over the cap, and two unreadable     *)
(* files.                                                                  *)
(***************************************************************************)
ExtractClick ==
  /\ run = "none"
  /\ \E name \in NamePool, org \in OrgPool, ups \in ExtractUploadPool :
       Generate(name, org, ups)

NextExtract == ExtractClick

SpecExtract == Init /\ [][NextExtract]_vars

(***************************************************************************)
(* One chunk source fed to the report loop and to the follow-up loop.      *)
(***************************************************************************)
PairChunk ==
  /\ pair_status = "STREAMING"
  /\ Len(pair_chunks) < MaxPairChunks
  /\ \E chunk \in ChunkPool :
       /\ pair_chunks' = Append(pair_chunks, chunk)
       /\ pair_report' = ReportAppend(pair_report.buffer, pair_report.shown, chunk)
       /\ pair_followup' =
            FollowupAppend(pair_followup.buffer, pair_followup.shown, chunk)
  /\ UNCHANGED <<pair_status, handler_vars, san_vars>>

PairEnd ==
  /\ pair_status = "STREAMING"
  /\ pair_status' = "COMPLETED"
  /\ UNCHANGED <<pair_chunks, pair_report, pair_followup, handler_vars, san_vars>>

PairRaise ==
  /\ pair_status = "STREAMING"
  /\ pair_status' = "FAILED"
  /\ pair_report' = [pair_report EXCEPT !.buffer = ReportOnRaise(@)]
  /\ pair_followup' = [pair_followup EXCEPT !.buffer = FollowupOnRaise(@)]
  /\ UNCHANGED <<pair_chunks, handler_vars, san_vars>>

NextPair ==
  \/ PairChunk
  \/ PairEnd
  \/ PairRaise

SpecPair == Init /\ [][NextPair]_vars

(***************************************************************************)
(* The sanitizer on its own, applied to a string and to its own result.    *)
(***************************************************************************)
\* "?", "a", e acute (in latin-1), the euro sign, an emoji, a lone surrogate
SanChars == {63, 97, 233, 8364, 128512, 55357}

SanStrings == UNION {[1..n -> SanChars] : n \in 0..MaxSanLen}

InitSan ==
  /\ InitHandlers
  /\ InitPair
  /\ san_in \in SanStrings
  /\ san_out = None
  /\ san_again = None

SanitizeOnce ==
  /\ san_out = None
  /\ san_out' = sanitize_for_pdf(san_in)
  /\ UNCHANGED <<san_in, san_again, handler_vars, pair_vars>>

SanitizeAgain ==
  /\ san_out \notin {None, Raised}
  /\ san_again = None
  /\ san_again' = sanitize_for_pdf(san_out)
  /\ UNCHANGED <<san_in, san_out, handler_vars, pair_vars>>

NextSan ==
  \/ SanitizeOnce
  \/ SanitizeAgain

SpecSanitize == InitSan /\ [][NextSan]_vars

(***************************************************************************)
(* Properties.                                                             *)
(***************************************************************************)
\* The run is a Generate click that passed validation.
GeneratePassed == run = "generate" /\ collector # "IDLE"

\* The buffer of the latest run's streaming call.
RunBuffer == IF run = "generate" THEN streamed_output ELSE response_text

\* C1: in the Generate pipeline every document's block holds its extracted text
\* unchanged, with no marker, when the text has at most 5000 characters (5000
\* included), and the first 5000 characters followed by the truncation marker
\* when it has more.
C1_TruncationAtMostCap ==
  GeneratePassed =>
    \A i \in DOMAIN all_texts :
      LET t == ExtractText(uploads[i].file)
          content == IF Len(t) <= SnippetCap THEN t
                     ELSE SubSeq(t, 1, SnippetCap) \o TruncMarker
      IN  all_texts[i] = BlockHeader(uploads[i].file.name, uploads[i].desc) \o content

\* C2, by the number of chunks: a report stream that raises ends with the placeholder when no
\* chunk was read, and with c1 + ... + ck when the chunks c1..ck were read,
\* whatever their text; the stored report is that buffer.
C2_FailureBufferByChunkCount ==
  (run = "generate" /\ collector = "FAILED") =>
    /\ streamed_output = IF chunks_read = <<>> THEN Placeholder
                         ELSE ConcatPayloads(chunks_read)
    /\ session_state["report"] = streamed_output

\* C2, by the content of the buffer: a report stream that raises ends with the placeholder when
\* the buffer is empty at that point (no chunk was read, or every chunk read
\* had empty text), and with c1 + ... + ck otherwise; the stored report is that
\* buffer.
C2_FailureBuffer ==
  (run = "generate" /\ collector = "FAILED") =>
    /\ streamed_output = IF ConcatPayloads(chunks_read) = Empty THEN Placeholder
                         ELSE ConcatPayloads(chunks_read)
    /\ session_state["report"] = streamed_output

\* C2 witness: the report stream raised after chunks that all had empty text,
\* and the placeholder is what is stored.
C2_Witness ==
  /\ run = "generate"
  /\ collector = "FAILED"
  /\ chunks_read # <<>>
  /\ ConcatPayloads(chunks_read) = Empty
  /\ session_state["report"] = Placeholder

\* C3: within one streaming call (report or follow-up) every buffer state
\* handed to the container is a prefix of the next one and no longer than it,
\* and each chunk is appended and shown before the next one is read: while the
\* call has not failed the buffer is the concatenation of the chunks read so
\* far, the last state shown is that buffer, and one state was shown per chunk
\* that carried text.
C3_PrefixOrdered ==
  /\ \A i \in 1..(Len(rendered) - 1) :
       /\ IsPrefix(rendered[i], rendered[i + 1])
       /\ Len(rendered[i]) <= Len(rendered[i + 1])
  /\ collector \in {"STREAMING", "COMPLETED"} =>
       /\ RunBuffer = ConcatPayloads(chunks_read)
       /\ rendered # <<>> => rendered[Len(rendered)] = RunBuffer
       /\ Len(rendered) =
            Cardinality({i \in DOMAIN chunks_read : TextChunk(chunks_read[i]) # Empty})

\* C3 witness: a follow-up stream that has shown two different buffer states.
C3_Witness ==
  /\ run = "ask"
  /\ Len(rendered) = 2
  /\ rendered[1] # rendered[2]

\* A step that is a click on Generate with a blank name, a blank organization
\* or no file, or a click on Ask with an empty or whitespace-only question.
RejectedClick ==
  /\ pc = "idle"
  /\ \/ run' = "generate" /\ (user_name' = Empty \/ organization' = Empty
                                \/ uploads' = <<>>)
     \/ run' = "ask" /\ ~StripTruthy(user_query')

\* C4: a rejected click hands no prompt to the LLM, shows exactly one notice,
\* a warning, starts no stream, shows no buffer, offers no download and leaves
\* the stored context and report as they were.
C4_ValidationAborts ==
  [][RejectedClick =>
       /\ llm_requests' = <<>>
       /\ Len(events') = 1
       /\ events'[1] \in {"warning:identity", "warning:files", "warning:question"}
       /\ pc' = "idle"
       /\ collector' = "IDLE"
       /\ rendered' = <<>>
       /\ download' = NoDownload
       /\ session_state' = session_state]_vars

\* C4 witness: with a report stored, Ask was clicked on a whitespace-only
\* question and the warning is all there is.
C4_Witness ==
  /\ run = "ask"
  /\ user_query = <<32, 9>>
  /\ events = <<"warning:question">>
  /\ "report" \in DOMAIN session_state

\* C5: a Generate run whose stream completed offers the PDF download or, if
\* the PDF could not be made, the plain-text download of the raw report.
C5_AlwaysExportable ==
  (run = "generate" /\ pc = "idle" /\ collector = "COMPLETED") =>
    \/ download.kind = "pdf"
    \/ download.kind = "txt" /\ download.data = streamed_output

\* C6: once a Generate click passes validation there is one block per uploaded
\* file, in upload order; the block of a file whose parsing raised holds the
\* marker "[Error reading NAME: CAUSE]" (the file's name, the exception's
\* text), the block of any other file is the one it gets when uploaded alone, and the prompt made of these blocks has
\* been handed to the LLM.
C6_ExtractionFailureInline ==
  GeneratePassed =>
    /\ Len(all_texts) = Len(uploads)
    /\ \A i \in DOMAIN uploads :
         LET file == uploads[i].file
         IN  IF file.cause # None
               THEN all_texts[i] =
                      BlockHeader(file.name, uploads[i].desc)
                        \o ErrorMarker(file.name, file.cause)
               ELSE /\ IsPrefix(BlockHeader(file.name, uploads[i].desc), all_texts[i])
                    /\ all_texts[i] = AllTexts(<<uploads[i]>>)[1]
    /\ llm_requests =
         <<FormatPrompt(Join(BlockSep, all_texts), user_name, organization)>>

\* C6 witness: two files, the first unreadable and the second readable, and
\* the request went out.
C6_Witness ==
  /\ GeneratePassed
  /\ Len(uploads) = 2
  /\ uploads[1].file.cause # None
  /\ uploads[2].file.cause = None
  /\ Len(llm_requests) = 1

\* C7: no step of a follow-up run (the click, rejected or not, a chunk, the end
\* or the failure of the stream) changes the stored context or report, and the
\* prompt of a follow-up is the stored context with the question appended.
C7_FollowupKeepsSession ==
  [][run' = "ask" =>
       /\ session_state' = session_state
       /\ llm_requests' # <<>> =>
            llm_requests' = <<FollowupPrompt(session_state["context"], user_query')>>]_vars

\* C7 witness: a follow-up stream completed with an answer.
C7_Witness ==
  /\ run = "ask"
  /\ collector = "COMPLETED"
  /\ response_text # Empty

\* C8: fed the same chunks and the same end, the report loop and the follow-up
\* loop finish with the same buffer.
C8_SameCollector ==
  pair_status \in {"COMPLETED", "FAILED"} =>
    pair_followup.buffer = pair_report.buffer

\* C9: sanitize_for_pdf does not raise, puts "?" for each character outside
\* latin-1 and keeps the others, and applied to its own result gives that
\* result back.
C9_SanitizeIdempotent ==
  /\ san_out # None =>
       /\ san_out # Raised
       /\ Len(san_out) = Len(san_in)
       /\ \A i \in DOMAIN san_in :
            san_out[i] = IF san_in[i] > Latin1Max THEN ReplacementChar ELSE san_in[i]
  /\ san_again # None => san_again = san_out

\* C9 witness: a string with a character outside latin-1 was sanitized twice.
C9_Witness ==
  /\ san_again # None
  /\ \E i \in DOMAIN san_in : san_in[i] > Latin1Max

\* A step that ends the stream of a Generate run.
ReportTerminates == pc = "report_streaming" /\ pc' = "idle"

\* C10: the session state holds no key or both; the step that ends a Generate
\* run's stream (completed or failed) sets the report to the final buffer and
\* the context to that run's prompt, the separator and that buffer, with
\* nothing of what was stored before; no other step changes the session state;
\* Ask is handled only when a context is stored.
C10_SessionOverwritten ==
  [][/\ DOMAIN session_state' \in {{}, {"context", "report"}}
     /\ ReportTerminates =>
          session_state' = [context |-> llm_requests[1] \o ContextSep \o streamed_output',
                            report |-> streamed_output']
     /\ ~ReportTerminates => session_state' = session_state
     /\ run' = "ask" => "context" \in DOMAIN session_state]_vars

\* C10 witness: a second Generate, with another prompt than the stored
\* context's, is streaming.
C10_Witness ==
  /\ pc = "report_streaming"
  /\ "context" \in DOMAIN session_state
  /\ ~IsPrefix(llm_requests[1], session_state["context"])
====
